---- MODULE Spec2Model ----
(***************************************************************************)
(* PriceGhost: the monitoring sweep (bot/services/monitor_scheduler.py),   *)
(* the monitor registry and the quota guard (database/db.py), and the      *)
(* effective tier (database/models.py, config.py).                         *)
(*                                                                         *)
(* Prices are positive integers; a price column that is NULL (or 0.0,      *)
(* which Python's truth tests treat alike) is NoPrice.  Time is a tick     *)
(* counter, two ticks to a calendar day, so that a timestamp and its       *)
(* calendar date differ.                                                   *)
(***************************************************************************)
EXTENDS Integers, Sequences, FiniteSets, TLC

\* ------------------------------------------------------------- bounds
MaxPrice == 3
MaxOps == 3
MaxCalls == 4
MaxTime == 3
MaxHistory == 5

\* ------------------------------------------------------------- universe
Users == {1, 2}
Products == {1, 2}
NoPrice == 0
Prices == 1..MaxPrice
TargetPrices == {NoPrice, 2}
Plans == {"FREE", "PRO", "PREMIUM"}
GrantDays == {1}
Callers == {1}
Slots == {1, 2}
NoTime == -1

VARIABLES
    now,                  \* datetime.utcnow(), in ticks
    users,                \* table users: id -> row
    products,             \* table products: id -> row
    price_records,        \* table price_records: product id -> rows, in insertion order
    monitored_products,   \* table monitored_products: rows in id order
    sweep_pc,             \* check_monitored_prices: "idle", "fetch", "notify", "done", "raised"
    monitors,             \* its local list, loaded from get_all_active_monitors
    sweep_idx,            \* position of the running for loop in monitors
    product_ids_checked,  \* its local set
    product_new_prices,   \* its local dict: product id -> price, NoPrice when absent
    ops,                  \* operations started so far: sweeps, on-demand checks, add and remove calls
    fetch_log,            \* history: scrape_product calls of the running sweep
    sent,                 \* history: bot.send_message calls of the running sweep
    evaluated,            \* history: monitors whose triggers the running sweep evaluated
    handlers,             \* check_and_increment_usage calls in progress, one per slot
    last_check,           \* history: what the last check_and_increment_usage call read and returned
    day,                  \* history: per user, the calls and the allowed calls of the current calendar day
    last_add,             \* history: what the last add_monitor call read and returned
    adders,               \* add_monitor calls in progress, one per slot
    writers,              \* add_price_record calls in progress, one per slot
    report,               \* what the last statistics and detector calls were given and returned
    product_rows,         \* table products, the columns that identify a row: rows in id order
    creators,             \* get_or_create_product calls in progress, one per slot
    last_product,         \* history: what the last get_or_create_product call was given and returned
    scheduler_task,       \* the task on_startup created for run_scheduler
    prev_failed,          \* history: monitor id -> price of the dispatch that failed in the previous sweep
    prev_prices           \* history: product id -> price the previous sweep recorded, NoPrice when none

vars == <<now, users, products, price_records, monitored_products, sweep_pc, monitors,
          sweep_idx, product_ids_checked, product_new_prices, ops,
          fetch_log, sent, evaluated, handlers, last_check, day, last_add, adders,
          writers, report, product_rows, creators, last_product, scheduler_task,
          prev_failed, prev_prices>>

tierVars == <<now, users>>
storeVars == <<products, price_records>>
sweepLocals == <<sweep_pc, monitors, sweep_idx, product_ids_checked, product_new_prices>>
sweepHistory == <<fetch_log, sent, evaluated>>
quotaVars == <<handlers, last_check, day>>
ledgerVars == <<writers, report>>
catalogVars == <<product_rows, creators, last_product>>
registryVars == <<monitored_products, ops, last_add, adders, prev_failed, prev_prices>>

\* ------------------------------------------------------------- tiers
FreeChecksPerDay == 3
ProChecksPerDay == 30
PremiumChecksPerDay == 999999
FreeMonitorItems == 0
ProMonitorItems == 20
PremiumMonitorItems == 50

PlanLimits(plan) ==
    IF plan = "PRO" THEN [checks_per_day |-> ProChecksPerDay, monitor_items |-> ProMonitorItems]
    ELSE IF plan = "PREMIUM"
    THEN [checks_per_day |-> PremiumChecksPerDay, monitor_items |-> PremiumMonitorItems]
    ELSE [checks_per_day |-> FreeChecksPerDay, monitor_items |-> FreeMonitorItems]

active_plan_stored(user, t) == user.plan

active_plan(user, t) ==
    IF user.plan_expires_at # NoTime /\ user.plan_expires_at > t THEN user.plan ELSE "FREE"

\* ------------------------------------------------------------- registry
MonitorTargetOnly(u, p, target) ==
    [user_id |-> u, product_id |-> p, target_price |-> target,
     notify_any_drop |-> target = NoPrice, last_notified_price |-> NoPrice,
     is_active |-> TRUE]

\* the row add_monitor inserts: notify_any_drop, last_notified_price and is_active
\* take their column defaults
Monitor(u, p, target) ==
    [user_id |-> u, product_id |-> p, target_price |-> target, notify_any_drop |-> TRUE,
     last_notified_price |-> NoPrice, is_active |-> TRUE]

ActiveCount(table, u) ==
    Cardinality({i \in DOMAIN table : table[i].user_id = u /\ table[i].is_active})

ExistingActiveOnly(table, u, p) ==
    {i \in DOMAIN table : table[i].user_id = u /\ table[i].product_id = p /\ table[i].is_active}

Existing(table, u, p) ==
    {i \in DOMAIN table : table[i].user_id = u /\ table[i].product_id = p}

AddGateCountFirst(max_items, current_count) ==
    IF current_count >= max_items THEN "limit"
    ELSE IF max_items = 0 THEN "unavailable"
    ELSE ""

\* the rejection add_monitor returns before it looks for the pair's row: "unavailable"
\* (not on the free plan), "limit" (limit reached), or "" when it goes on
AddGate(max_items, current_count) ==
    IF max_items = 0 THEN "unavailable"
    ELSE IF current_count >= max_items THEN "limit"
    ELSE ""

RECURSIVE get_all_active_monitors(_, _, _)
get_all_active_monitors(table, prods, i) ==
    IF i > Len(table) THEN <<>>
    ELSE LET rest == get_all_active_monitors(table, prods, i + 1)
             item == [id |-> i, monitor |-> table[i],
                      product |-> [id |-> table[i].product_id,
                                   current_price |-> prods[table[i].product_id].current_price],
                      user |-> table[i].user_id]
         IN  IF table[i].is_active THEN <<item>> \o rest ELSE rest

update_monitor_notified_all(table, monitor_id, price) ==
    [i \in DOMAIN table |-> [table[i] EXCEPT !.last_notified_price = price]]

update_monitor_notified(table, monitor_id, price) ==
    [table EXCEPT ![monitor_id].last_notified_price = price]

\* ------------------------------------------------------------- time
\* datetime.date(): two ticks to a calendar day
Date(t) == t \div 2

\* timedelta(days=days)
Days(days) == days * 2

\* ------------------------------------------------------------- ledger
\* a price_records row; recorded_at is the column default, utcnow
PriceRecord(product_id, price, t) ==
    [product_id |-> product_id, price |-> price, recorded_at |-> t]

\* session.add(record); session.commit(): the INSERT
InsertRecord(table, record) ==
    [table EXCEPT ![record.product_id] = Append(@, record)]

add_price_record(table, product_id, price, t) ==
    InsertRecord(table, PriceRecord(product_id, price, t))

\* ORDER BY recorded_at ASC: row r put after the rows of sorted that are not later
RECURSIVE InsertByRecordedAt(_, _)
InsertByRecordedAt(sorted, r) ==
    IF sorted = <<>> THEN <<r>>
    ELSE IF Head(sorted).recorded_at <= r.recorded_at
    THEN <<Head(sorted)>> \o InsertByRecordedAt(Tail(sorted), r)
    ELSE <<r>> \o sorted

RECURSIVE OrderByRecordedAt(_)
OrderByRecordedAt(rows) ==
    IF rows = <<>> THEN <<>>
    ELSE InsertByRecordedAt(OrderByRecordedAt(SubSeq(rows, 1, Len(rows) - 1)),
                            rows[Len(rows)])

get_price_history_unbounded(table, product_id, t, days) ==
    OrderByRecordedAt(table[product_id])

\* the rows of the product recorded since days days before t, oldest first
get_price_history(table, product_id, t, days) ==
    LET since == t - Days(days)
        Since(r) == r.recorded_at >= since
    IN  OrderByRecordedAt(SelectSeq(table[product_id], Since))

\* ------------------------------------------------------------- statistics
\* [r.price for r in records if r.price > 0]
RECURSIVE PricesOf(_)
PricesOf(records) ==
    IF records = <<>> THEN <<>>
    ELSE IF Head(records).price > 0
    THEN <<Head(records).price>> \o PricesOf(Tail(records))
    ELSE PricesOf(Tail(records))

RECURSIVE Sum(_)
Sum(prices) == IF prices = <<>> THEN 0 ELSE Head(prices) + Sum(Tail(prices))

RECURSIVE MinOf(_)
MinOf(prices) ==
    IF Len(prices) = 1 THEN prices[1]
    ELSE LET m == MinOf(Tail(prices)) IN IF Head(prices) <= m THEN Head(prices) ELSE m

RECURSIVE MaxOf(_)
MaxOf(prices) ==
    IF Len(prices) = 1 THEN prices[1]
    ELSE LET m == MaxOf(Tail(prices)) IN IF Head(prices) >= m THEN Head(prices) ELSE m

\* round(num / den): the nearest integer, a tie going to the even one
Round(num, den) ==
    LET q == num \div den
        twice == 2 * (num - q * den)
    IN  IF twice > den THEN q + 1
        ELSE IF twice < den THEN q
        ELSE IF q % 2 = 0 THEN q ELSE q + 1

\* the records of the last days days before t
RecentRecords(records, t, days) ==
    LET cutoff == t - Days(days)
        Recent(r) == r.recorded_at >= cutoff
    IN  SelectSeq(records, Recent)

TrendOfAllRecords(records, t) ==
    LET recent_prices == PricesOf(records)
        first_recent == recent_prices[1]
        last_recent == recent_prices[Len(recent_prices)]
        change == (last_recent - first_recent) * 100
    IN  IF Len(recent_prices) >= 2 /\ first_recent > 0
        THEN [trend |-> IF change > 3 * first_recent THEN "up"
                        ELSE IF change < (-3) * first_recent THEN "down"
                        ELSE "stable",
              trend_percent |-> Round(change * 10, first_recent)]
        ELSE [trend |-> "stable", trend_percent |-> 0]

\* trend and trend_percent (in tenths of a percent, as round(trend_percent, 1) leaves it)
\* of the records of the last 30 days
Trend(records, t) ==
    LET recent_prices == PricesOf(RecentRecords(records, t, 30))
        first_recent == recent_prices[1]
        last_recent == recent_prices[Len(recent_prices)]
        change == (last_recent - first_recent) * 100
    IN  IF Len(recent_prices) >= 2 /\ first_recent > 0
        THEN [trend |-> IF change > 3 * first_recent THEN "up"
                        ELSE IF change < (-3) * first_recent THEN "down"
                        ELSE "stable",
              trend_percent |-> Round(change * 10, first_recent)]
        ELSE [trend |-> "stable", trend_percent |-> 0]

\* the dict get_price_stats returns; avg_price is in hundredths, as round(avg_price, 2)
\* leaves it
get_price_stats(table, product_id, t, days) ==
    LET records == get_price_history(table, product_id, t, days)
        prices == PricesOf(records)
    IN  IF records = <<>> THEN [has_data |-> FALSE, records_count |-> 0]
        ELSE IF prices = <<>> THEN [has_data |-> FALSE, records_count |-> 0]
        ELSE [has_data |-> TRUE,
              records_count |-> Len(records),
              current_price |-> prices[Len(prices)],
              min_price |-> MinOf(prices),
              max_price |-> MaxOf(prices),
              avg_price |-> Round(Sum(prices) * 100, Len(prices)),
              trend |-> Trend(records, t).trend,
              trend_percent |-> Trend(records, t).trend_percent,
              records |-> records,
              prices |-> prices]

\* ------------------------------------------------------------- fake-discount detector
\* the loop of _detect_price_markup from index i on: best is the largest rise so far,
\* as the fraction num / den, with the prices it goes from and to
RECURSIVE MaxRise(_, _, _)
MaxRise(prices, i, best) ==
    IF i > Len(prices) THEN best
    ELSE LET from == prices[i - 1]
             to == prices[i]
         IN  IF from > 0 /\ (to - from) * best.den > best.num * from
             THEN MaxRise(prices, i + 1,
                          [num |-> to - from, den |-> from, from_price |-> from, to_price |-> to])
             ELSE MaxRise(prices, i + 1, best)

NoRise == [num |-> 0, den |-> 1, from_price |-> 0, to_price |-> 0]

\* _detect_price_markup(records): detected is FALSE where it returns None
detect_price_markup(records, t) ==
    LET recent == RecentRecords(records, t, 60)
        prices == PricesOf(recent)
        best == MaxRise(prices, 2, NoRise)
    IN  IF Len(records) < 3 \/ Len(recent) < 3 \/ Len(prices) < 3
        THEN [detected |-> FALSE, from_price |-> 0, to_price |-> 0]
        ELSE IF best.num * 100 > 15 * best.den
        THEN [detected |-> TRUE, from_price |-> best.from_price, to_price |-> best.to_price]
        ELSE [detected |-> FALSE, from_price |-> 0, to_price |-> 0]

DiscountRuleFloorFirst(current_price, total, count, history_min) ==
    IF current_price * 100 <= history_min * 105 THEN "genuine"
    ELSE IF current_price * 100 * count >= total * 95 THEN "fake"
    ELSE "partial"

\* the branch analyze_fake_discount takes for a claimed discount; history_avg is
\* total / count
DiscountRule(current_price, total, count, history_min) ==
    IF current_price * 100 * count >= total * 95 THEN "fake"
    ELSE IF current_price * 100 <= history_min * 105 THEN "genuine"
    ELSE "partial"

PriceRuleCeilingFirst(current_price, history_min, history_max) ==
    IF current_price * 100 >= history_max * 95 THEN "near_max"
    ELSE IF current_price * 100 <= history_min * 105 THEN "near_min"
    ELSE "normal"

\* the branch it takes when no discount is claimed
PriceRule(current_price, history_min, history_max) ==
    IF current_price * 100 <= history_min * 105 THEN "near_min"
    ELSE IF current_price * 100 >= history_max * 95 THEN "near_max"
    ELSE "normal"

Neutral(verdict) == [is_fake |-> FALSE, confidence |-> 0, verdict |-> verdict, markup |-> FALSE]

\* the dict analyze_fake_discount returns: is_fake, confidence, which verdict text, and
\* whether the markup detail was added
analyze_fake_discount(table, product_id, t, current_price, original_price) ==
    LET records == get_price_history(table, product_id, t, 180)
        prices == PricesOf(records)
        rule == DiscountRule(current_price, Sum(prices), Len(prices), MinOf(prices))
        markup == detect_price_markup(records, t)
    IN  IF Len(records) < 2 THEN Neutral("insufficient")
        ELSE IF prices = <<>> THEN Neutral("no_prices")
        ELSE IF original_price > 0 /\ original_price > current_price
        THEN IF rule = "fake"
             THEN [is_fake |-> TRUE,
                   confidence |-> IF markup.detected THEN 95 ELSE 85,
                   verdict |-> IF current_price * Len(prices) >= Sum(prices)
                               THEN "fake" ELSE "exaggerated",
                   markup |-> markup.detected]
             ELSE IF rule = "genuine"
             THEN [is_fake |-> FALSE, confidence |-> 80, verdict |-> "genuine",
                   markup |-> FALSE]
             ELSE [is_fake |-> FALSE, confidence |-> 60, verdict |-> "partial",
                   markup |-> FALSE]
        ELSE Neutral(PriceRule(current_price, MinOf(prices), MaxOf(prices)))

\* ------------------------------------------------------------- sweep helpers
FetchOutcomes ==
    {[kind |-> "raise", price |-> NoPrice], [kind |-> "none", price |-> NoPrice]}
        \cup {[kind |-> "data", price |-> p] : p \in 0..MaxPrice}

RefreshedNonNegative(data) == data.kind = "data" /\ data.price >= 0

RefreshedAnyData(data) == data.kind = "data"

\* if data and data.get("current_price", 0) > 0
Refreshed(data) == data.kind = "data" /\ data.price > 0

AlreadyCheckedNever(pid, checked) == FALSE

AlreadyChecked(pid, checked) == pid \in checked

OldPriceRefreshed(product, new_price) == new_price

\* old_price = product.current_price or new_price, product being the row as the sweep
\* loaded it
OldPrice(product, new_price) ==
    IF product.current_price # NoPrice THEN product.current_price ELSE new_price

RatchetBlocksHigherOnly(monitor, new_price) ==
    monitor.last_notified_price # NoPrice /\ new_price > monitor.last_notified_price

RatchetBlocks(monitor, new_price) ==
    monitor.last_notified_price # NoPrice /\ new_price >= monitor.last_notified_price

AnyDropTrigger(monitor, old_price, new_price) ==
    monitor.notify_any_drop /\ new_price < old_price

TargetTrigger(monitor, new_price) ==
    monitor.target_price # NoPrice /\ new_price <= monitor.target_price

NotificationKindDropFirst(monitor, old_price, new_price) ==
    IF AnyDropTrigger(monitor, old_price, new_price) /\ RatchetBlocks(monitor, new_price) THEN ""
    ELSE IF AnyDropTrigger(monitor, old_price, new_price) THEN "drop"
    ELSE IF TargetTrigger(monitor, new_price) /\ ~RatchetBlocks(monitor, new_price) THEN "target"
    ELSE ""

\* "" when nothing is to be sent (should_notify stays False, or the loop continues)
NotificationKind(monitor, old_price, new_price) ==
    IF AnyDropTrigger(monitor, old_price, new_price) /\ RatchetBlocks(monitor, new_price) THEN ""
    ELSE IF TargetTrigger(monitor, new_price) /\ RatchetBlocks(monitor, new_price) THEN ""
    ELSE IF TargetTrigger(monitor, new_price) THEN "target"
    ELSE IF AnyDropTrigger(monitor, old_price, new_price) THEN "drop"
    ELSE ""

AfterFetchAbortOnError(data, idx, n) ==
    IF data.kind = "raise" THEN [pc |-> "done", idx |-> 0]
    ELSE IF idx < n THEN [pc |-> "fetch", idx |-> idx + 1] ELSE [pc |-> "notify", idx |-> 1]

\* where the sweep goes after the fetch loop's iteration idx of n
AfterFetch(data, idx, n) ==
    IF idx < n THEN [pc |-> "fetch", idx |-> idx + 1] ELSE [pc |-> "notify", idx |-> 1]

AfterNotifyAbortOnError(ok, idx, n) ==
    IF ~ok THEN [pc |-> "done", idx |-> 0]
    ELSE IF idx < n THEN [pc |-> "notify", idx |-> idx + 1] ELSE [pc |-> "done", idx |-> 0]

\* where the sweep goes after the notification loop's iteration idx of n
AfterNotify(ok, idx, n) ==
    IF idx < n THEN [pc |-> "notify", idx |-> idx + 1] ELSE [pc |-> "done", idx |-> 0]

AfterDispatchAlways(table, monitor_id, new_price, ok) ==
    update_monitor_notified(table, monitor_id, new_price)

\* the monitors table after the try block around send_message
AfterDispatch(table, monitor_id, new_price, ok) ==
    IF ok THEN update_monitor_notified(table, monitor_id, new_price) ELSE table

\* ------------------------------------------------------------- quota helpers
NeedsResetNever(user, t) == FALSE

NeedsReset(user, t) ==
    user.checks_reset_date = NoTime \/ Date(user.checks_reset_date) < Date(t)

ExceededAbove(checks_today, max_checks) == checks_today > max_checks

Exceeded(checks_today, max_checks) == checks_today >= max_checks

\* what one call computes from the row it selected: the row as the session holds it when
\* the call returns or commits, and the tuple (allowed, used, limit) it returns
ReadUsage(user, t) ==
    LET reset == NeedsReset(user, t)
        fresh == IF reset THEN [user EXCEPT !.checks_today = 0, !.checks_reset_date = t]
                 ELSE user
        max_checks == PlanLimits(active_plan(fresh, t)).checks_per_day
        allowed == ~Exceeded(fresh.checks_today, max_checks)
        row == IF allowed THEN [fresh EXCEPT !.checks_today = @ + 1] ELSE fresh
    IN  [allowed |-> allowed, used |-> row.checks_today, limit |-> max_checks,
         row |-> row, reset |-> reset, read |-> user]

\* session.commit(): the UPDATE writes the attributes the call has set
CommitUsage(rows, u, usage) ==
    [rows EXCEPT ![u].checks_today = usage.row.checks_today,
                 ![u].checks_reset_date = IF usage.reset THEN usage.row.checks_reset_date ELSE @]

Returned(u, usage, t) ==
    <<[telegram_id |-> u, allowed |-> usage.allowed, used |-> usage.used,
       limit |-> usage.limit, read |-> usage.read, at |-> t]>>

Counted(d, u, allowed, at) ==
    IF Date(at) = Date(now)
    THEN [d EXCEPT ![u].allowed = @ + (IF allowed THEN 1 ELSE 0)]
    ELSE d

\* ------------------------------------------------------------- initial state
IdleHandler == [pc |-> "idle", telegram_id |-> 0, usage |-> <<>>, at |-> 0]
IdleAdder == [pc |-> "idle", call |-> <<>>, existing |-> {}]
IdleWriter == [pc |-> "idle", record |-> <<>>]
IdleCreator == [pc |-> "idle", call |-> <<>>]

\* the run_scheduler task as asyncio.create_task leaves it: state is "running",
\* "cancelled" or "failed"; cancel_requested, whether cancel() was called on it;
\* errors, the exceptions its loop has caught
NewTask == [state |-> "running", cancel_requested |-> FALSE, errors |-> 0]

\* the identifying columns of the products row of product p
ProductRow(p) == [url |-> p, marketplace |-> "wildberries", external_id |-> p]
FreshDay == [calls |-> 0, allowed |-> 0, stable |-> TRUE]

\* a users row as get_or_create_user inserts it, at time t
NewUser(t) ==
    [plan |-> "FREE", plan_expires_at |-> NoTime, checks_today |-> 0, checks_reset_date |-> t]

InitWith(rows) ==
    /\ now = 0
    /\ users = rows
    /\ products = [p \in Products |-> [current_price |-> MaxPrice]]
    /\ price_records = [p \in Products |-> <<PriceRecord(p, products[p].current_price, 0)>>]
    /\ monitored_products = <<>>
    /\ sweep_pc = "idle"
    /\ monitors = <<>>
    /\ sweep_idx = 0
    /\ product_ids_checked = {}
    /\ product_new_prices = [p \in Products |-> NoPrice]
    /\ ops = 0
    /\ fetch_log = <<>>
    /\ sent = <<>>
    /\ evaluated = {}
    /\ handlers = [h \in Slots |-> IdleHandler]
    /\ last_check = <<>>
    /\ day = [u \in Users |-> FreshDay]
    /\ last_add = <<>>
    /\ adders = [h \in Slots |-> IdleAdder]
    /\ writers = [h \in Slots |-> IdleWriter]
    /\ report = <<>>
    /\ product_rows = [p \in DOMAIN products |-> ProductRow(p)]
    /\ creators = [h \in Slots |-> IdleCreator]
    /\ last_product = <<>>
    /\ scheduler_task = NewTask
    /\ prev_failed = {}
    /\ prev_prices = [p \in DOMAIN products |-> NoPrice]

\* both users hold PRO, given for one day at time 0; every product has been checked once
Init == InitWith([u \in Users |-> [NewUser(0) EXCEPT !.plan = "PRO", !.plan_expires_at = 2]])

\* both users are new
QuotaInit == InitWith([u \in Users |-> NewUser(0)])

\* ------------------------------------------------------------- registry operations
Untouched(failed, ids) == {f \in failed : f[1] \notin ids}

AddCallLookupFirst(u, p, target) ==
    LET user == users[u]
        max_items == PlanLimits(active_plan(user, now)).monitor_items
        current_count == IF max_items = 0 THEN 0 ELSE ActiveCount(monitored_products, u)
    IN  [user_id |-> u, product_id |-> p, target_price |-> target,
         max_items |-> max_items, current_count |-> current_count, plan |-> user.plan,
         plan_expires_at |-> user.plan_expires_at, at |-> now,
         result |-> IF max_items = 0 THEN "unavailable"
                    ELSE IF Existing(monitored_products, u, p) # {} THEN "updated"
                    ELSE IF current_count >= max_items THEN "limit"
                    ELSE "added"]

\* what add_monitor selects, and what it returns from that
AddCall(u, p, target) ==
    LET user == users[u]
        max_items == PlanLimits(active_plan(user, now)).monitor_items
        current_count == IF max_items = 0 THEN 0 ELSE ActiveCount(monitored_products, u)
        gate == AddGate(max_items, current_count)
    IN  [user_id |-> u, product_id |-> p, target_price |-> target,
         max_items |-> max_items, current_count |-> current_count, plan |-> user.plan,
         plan_expires_at |-> user.plan_expires_at, at |-> now,
         result |-> IF gate # "" THEN gate
                    ELSE IF Existing(monitored_products, u, p) # {} THEN "updated"
                    ELSE "added"]

\* existing.is_active = True; existing.target_price = target_price; commit
UpdateRowsReset(table, existing, target) ==
    [i \in DOMAIN table |->
        IF i \in existing
        THEN [table[i] EXCEPT !.is_active = TRUE, !.target_price = target,
                              !.last_notified_price = NoPrice]
        ELSE table[i]]

UpdateRows(table, existing, target) ==
    [i \in DOMAIN table |->
        IF i \in existing
        THEN [table[i] EXCEPT !.is_active = TRUE, !.target_price = target]
        ELSE table[i]]

\* one call, from its first SELECT to its return, with no other call in between
add_monitor(u, p, target) ==
    LET call == AddCall(u, p, target)
        existing == Existing(monitored_products, u, p)
    IN  /\ last_add' = <<call>>
        /\ IF call.result = "updated"
           THEN /\ monitored_products' = UpdateRows(monitored_products, existing, target)
                /\ prev_failed' = Untouched(prev_failed, existing)
           ELSE IF call.result = "added"
           THEN /\ monitored_products' = Append(monitored_products, Monitor(u, p, target))
                /\ UNCHANGED prev_failed
           ELSE UNCHANGED <<monitored_products, prev_failed>>
        /\ ops < MaxOps
        /\ ops' = ops + 1
        /\ UNCHANGED <<catalogVars, scheduler_task, ledgerVars, adders, tierVars, quotaVars, storeVars, sweepLocals, sweepHistory, prev_prices>>

\* the same call in two steps, as concurrent handlers run it: the SELECTs (a rejected
\* call returns here) ...
AddRead(h, u, p, target) ==
    LET call == AddCall(u, p, target)
    IN  /\ adders[h].pc = "idle"
        /\ ops < MaxOps
        /\ ops' = ops + 1
        /\ IF call.result \in {"unavailable", "limit"}
           THEN last_add' = <<call>> /\ UNCHANGED adders
           ELSE /\ adders' = [adders EXCEPT ![h] =
                                 [pc |-> "commit", call |-> <<call>>,
                                  existing |-> Existing(monitored_products, u, p)]]
                /\ UNCHANGED last_add
        /\ UNCHANGED <<catalogVars, scheduler_task, ledgerVars, tierVars, quotaVars, storeVars, sweepLocals, sweepHistory,
                       monitored_products, prev_failed, prev_prices>>

\* ... and the commit: the UPDATE of the row that was found, or the INSERT, which the
\* unique index on (user_id, product_id) refuses when the pair has a row by now
AddCommit(h) ==
    LET call == adders[h].call[1]
        existing == adders[h].existing
    IN  /\ adders[h].pc = "commit"
        /\ adders' = [adders EXCEPT ![h] = IdleAdder]
        /\ IF existing # {}
           THEN /\ monitored_products' =
                       UpdateRows(monitored_products, existing, call.target_price)
                /\ prev_failed' = Untouched(prev_failed, existing)
                /\ last_add' = <<call>>
           ELSE IF Existing(monitored_products, call.user_id, call.product_id) # {}
           THEN /\ last_add' = <<[call EXCEPT !.result = "IntegrityError"]>>
                /\ UNCHANGED <<monitored_products, prev_failed>>
           ELSE /\ monitored_products' =
                       Append(monitored_products,
                              Monitor(call.user_id, call.product_id, call.target_price))
                /\ last_add' = <<call>>
                /\ UNCHANGED prev_failed
        /\ UNCHANGED <<catalogVars, scheduler_task, ledgerVars, tierVars, quotaVars, storeVars, sweepLocals, sweepHistory, ops, prev_prices>>

remove_monitor(u, p) ==
    LET existing == Existing(monitored_products, u, p)
    IN  /\ existing # {}
        /\ monitored_products' =
               [i \in DOMAIN monitored_products |->
                   IF i \in existing
                   THEN [monitored_products[i] EXCEPT !.is_active = FALSE]
                   ELSE monitored_products[i]]
        /\ prev_failed' = Untouched(prev_failed, existing)
        /\ ops < MaxOps
        /\ ops' = ops + 1
        /\ UNCHANGED <<catalogVars, scheduler_task, ledgerVars, adders, tierVars, quotaVars, storeVars, sweepLocals, sweepHistory, last_add, prev_prices>>

\* ------------------------------------------------------------- on-demand check
fetch_and_save_price(p, data) ==
    /\ ops < MaxOps
    /\ data.kind = "data"
    /\ ops' = ops + 1
    /\ products' = [products EXCEPT ![p].current_price = data.price]
    /\ price_records' =
           IF data.price > 0
           THEN add_price_record(price_records, p, data.price, now)
           ELSE price_records
    /\ UNCHANGED <<catalogVars, scheduler_task, ledgerVars, adders, tierVars, quotaVars, monitored_products, sweepLocals, sweepHistory, last_add,
                   prev_failed, prev_prices>>

\* ------------------------------------------------------------- the sweep
SweepStart ==
    /\ scheduler_task.state = "running"
    /\ sweep_pc = "idle"
    /\ ops < MaxOps
    /\ ops' = ops + 1
    /\ monitors' = get_all_active_monitors(monitored_products, products, 1)
    /\ IF monitors' = <<>>
       THEN sweep_pc' = "done" /\ sweep_idx' = 0
       ELSE sweep_pc' = "fetch" /\ sweep_idx' = 1
    /\ product_ids_checked' = {}
    /\ product_new_prices' = [p \in Products |-> NoPrice]
    /\ fetch_log' = <<>>
    /\ sent' = <<>>
    /\ evaluated' = {}
    /\ UNCHANGED <<catalogVars, scheduler_task, ledgerVars, adders, tierVars, quotaVars, storeVars, monitored_products, last_add, prev_failed, prev_prices>>

SweepFetch ==
    /\ scheduler_task.state = "running"
    /\ sweep_pc = "fetch"
    /\ LET product == monitors[sweep_idx].product
           n == Len(monitors)
       IN  IF AlreadyChecked(product.id, product_ids_checked)
           THEN /\ sweep_pc' = AfterFetch([kind |-> "skip", price |-> NoPrice], sweep_idx, n).pc
                /\ sweep_idx' = AfterFetch([kind |-> "skip", price |-> NoPrice], sweep_idx, n).idx
                /\ UNCHANGED <<product_ids_checked, product_new_prices, products,
                               price_records, fetch_log>>
           ELSE \E data \in FetchOutcomes :
                /\ product_ids_checked' = product_ids_checked \cup {product.id}
                /\ fetch_log' = Append(fetch_log, [product_id |-> product.id,
                                                   kind |-> data.kind,
                                                   price |-> data.price])
                /\ IF Refreshed(data)
                   THEN /\ product_new_prices' =
                               [product_new_prices EXCEPT ![product.id] = data.price]
                        /\ price_records' =
                               add_price_record(price_records, product.id, data.price, now)
                        /\ products' = [products EXCEPT ![product.id].current_price = data.price]
                   ELSE UNCHANGED <<product_new_prices, price_records, products>>
                /\ sweep_pc' = AfterFetch(data, sweep_idx, n).pc
                /\ sweep_idx' = AfterFetch(data, sweep_idx, n).idx
    /\ UNCHANGED <<catalogVars, scheduler_task, ledgerVars, adders, tierVars, quotaVars, monitored_products, monitors, ops, sent, evaluated, last_add, prev_failed, prev_prices>>

SweepNotify ==
    /\ scheduler_task.state = "running"
    /\ sweep_pc = "notify"
    /\ LET item == monitors[sweep_idx]
           n == Len(monitors)
           new_price == product_new_prices[item.product.id]
           old_price == OldPrice(item.product, new_price)
           kind == NotificationKind(item.monitor, old_price, new_price)
       IN  IF new_price = NoPrice
           THEN /\ sweep_pc' = AfterNotify(TRUE, sweep_idx, n).pc
                /\ sweep_idx' = AfterNotify(TRUE, sweep_idx, n).idx
                /\ UNCHANGED <<monitored_products, sent, evaluated>>
           ELSE /\ evaluated' = evaluated \cup {item.id}
                /\ IF kind = ""
                   THEN /\ sweep_pc' = AfterNotify(TRUE, sweep_idx, n).pc
                        /\ sweep_idx' = AfterNotify(TRUE, sweep_idx, n).idx
                        /\ UNCHANGED <<monitored_products, sent>>
                   ELSE \E ok \in BOOLEAN :
                        /\ sent' = Append(sent, [monitor_id |-> item.id, kind |-> kind,
                                                 price |-> new_price, old_price |-> old_price,
                                                 monitor |-> item.monitor, ok |-> ok])
                        /\ monitored_products' =
                               AfterDispatch(monitored_products, item.id, new_price, ok)
                        /\ sweep_pc' = AfterNotify(ok, sweep_idx, n).pc
                        /\ sweep_idx' = AfterNotify(ok, sweep_idx, n).idx
    /\ UNCHANGED <<catalogVars, scheduler_task, ledgerVars, adders, tierVars, quotaVars, storeVars, monitors, product_ids_checked, product_new_prices,
                   ops, fetch_log, last_add, prev_failed, prev_prices>>

\* check_monitored_prices returns; run_scheduler sleeps until the next sweep
SweepEnd ==
    /\ scheduler_task.state = "running"
    /\ sweep_pc = "done"
    /\ sweep_pc' = "idle"
    /\ prev_prices' = product_new_prices
    /\ prev_failed' =
           {<<sent[j].monitor_id, sent[j].price>> :
               j \in {k \in DOMAIN sent :
                         /\ ~sent[k].ok
                         /\ monitored_products[sent[k].monitor_id] = sent[k].monitor}}
    /\ monitors' = <<>>
    /\ sweep_idx' = 0
    /\ product_ids_checked' = {}
    /\ product_new_prices' = [p \in Products |-> NoPrice]
    /\ fetch_log' = <<>>
    /\ sent' = <<>>
    /\ evaluated' = {}
    /\ UNCHANGED <<catalogVars, scheduler_task, ledgerVars, adders, tierVars, quotaVars, storeVars, monitored_products, ops, last_add>>

\* ------------------------------------------------------------- the scheduler's loop
CatchesEverything(handler, error) == TRUE

\* whether "except handler:" catches error: asyncio.CancelledError derives from
\* BaseException, not from Exception
Catches(handler, error) ==
    handler = "BaseException" \/ (handler = "Exception" /\ error = "Exception")

\* an exception leaves check_monitored_prices: raised where the monitors are loaded
\* (sweep_pc "idle": the sweep has started and has no list yet) or in the notification
\* loop outside its try block
SweepRaise ==
    /\ scheduler_task.state = "running"
    /\ sweep_pc \in {"idle", "notify"}
    /\ sweep_pc' = "raised"
    /\ IF sweep_pc = "idle"
       THEN /\ ops < MaxOps
            /\ ops' = ops + 1
            /\ fetch_log' = <<>>
            /\ sent' = <<>>
            /\ evaluated' = {}
       ELSE UNCHANGED <<ops, sweepHistory>>
    /\ UNCHANGED <<catalogVars, scheduler_task, ledgerVars, adders, tierVars, quotaVars,
                   storeVars, monitored_products, last_add, prev_failed, prev_prices, monitors, sweep_idx,
                   product_ids_checked, product_new_prices>>

\* run_scheduler: except Exception around the sweep; caught, the error is logged and the
\* loop goes on to its sleep; not caught, it ends the task
SweepCaught ==
    /\ scheduler_task.state = "running"
    /\ sweep_pc = "raised"
    /\ sweep_pc' = "idle"
    /\ scheduler_task' =
           IF Catches("Exception", "Exception")
           THEN [scheduler_task EXCEPT !.errors = @ + 1]
           ELSE [scheduler_task EXCEPT !.state = "failed"]
    /\ prev_prices' = product_new_prices
    /\ prev_failed' =
           {<<sent[j].monitor_id, sent[j].price>> :
               j \in {k \in DOMAIN sent :
                         /\ ~sent[k].ok
                         /\ monitored_products[sent[k].monitor_id] = sent[k].monitor}}
    /\ monitors' = <<>>
    /\ sweep_idx' = 0
    /\ product_ids_checked' = {}
    /\ product_new_prices' = [p \in DOMAIN product_new_prices |-> NoPrice]
    /\ fetch_log' = <<>>
    /\ sent' = <<>>
    /\ evaluated' = {}
    /\ UNCHANGED <<catalogVars, ledgerVars, adders, tierVars, quotaVars, storeVars,
                   monitored_products, ops, last_add>>

\* on_shutdown: _scheduler_task.cancel(). CancelledError is thrown into the task at the
\* await it is suspended in: in the sweep (inside or outside its try blocks, whose
\* handlers are except Exception too) or in the loop's sleep
Cancel ==
    /\ scheduler_task.state = "running"
    /\ ~scheduler_task.cancel_requested
    /\ scheduler_task' =
           IF Catches("Exception", "CancelledError")
           THEN [scheduler_task EXCEPT !.cancel_requested = TRUE]
           ELSE [scheduler_task EXCEPT !.cancel_requested = TRUE, !.state = "cancelled"]
    /\ UNCHANGED <<catalogVars, ledgerVars, tierVars, quotaVars, storeVars, registryVars,
                   sweepLocals, sweepHistory>>

\* ------------------------------------------------------------- time and tiers
TickDeactivating ==
    /\ now < MaxTime
    /\ now' = now + 1
    /\ day' = [u \in Users |->
                  IF Date(now + 1) # Date(now) THEN FreshDay
                  ELSE [day[u] EXCEPT !.stable =
                           @ /\ active_plan(users[u], now + 1) = active_plan(users[u], now)]]
    /\ monitored_products' =
           [i \in DOMAIN monitored_products |->
               IF active_plan(users[monitored_products[i].user_id], now + 1) = "FREE"
               THEN [monitored_products[i] EXCEPT !.is_active = FALSE]
               ELSE monitored_products[i]]
    /\ UNCHANGED <<catalogVars, scheduler_task, ledgerVars, users, storeVars, ops, last_add,
                   adders, prev_failed, prev_prices, sweepLocals, sweepHistory, handlers,
                   last_check>>

Tick ==
    /\ now < MaxTime
    /\ now' = now + 1
    /\ day' = [u \in Users |->
                  IF Date(now + 1) # Date(now) THEN FreshDay
                  ELSE [day[u] EXCEPT !.stable =
                           @ /\ active_plan(users[u], now + 1) = active_plan(users[u], now)]]
    /\ UNCHANGED <<catalogVars, scheduler_task, ledgerVars, users, storeVars, registryVars, sweepLocals, sweepHistory, handlers,
                   last_check>>

activate_plan(u, plan, days) ==
    /\ users' = [users EXCEPT ![u].plan = plan, ![u].plan_expires_at = now + Days(days)]
    /\ day' = [day EXCEPT ![u].stable = FALSE]
    /\ UNCHANGED <<catalogVars, scheduler_task, ledgerVars, now, storeVars, registryVars, sweepLocals, sweepHistory, handlers,
                   last_check>>

\* ------------------------------------------------------------- quota guard
\* one call, from its SELECT to its return, with no other call in between
check_and_increment_usage(u) ==
    LET usage == ReadUsage(users[u], now)
    IN  /\ day[u].calls < MaxCalls
        /\ users' = IF usage.allowed THEN CommitUsage(users, u, usage) ELSE users
        /\ last_check' = Returned(u, usage, now)
        /\ day' = [Counted(day, u, usage.allowed, now) EXCEPT ![u].calls = @ + 1]
        /\ UNCHANGED <<catalogVars, scheduler_task, ledgerVars, now, storeVars, registryVars, sweepLocals, sweepHistory, handlers>>

\* the same call in two steps, as concurrent handlers run it: the SELECT and the
\* computation up to the commit (a rejected call returns here) ...
CheckRead(h, u) ==
    LET usage == ReadUsage(users[u], now)
    IN  /\ handlers[h].pc = "idle"
        /\ day[u].calls < MaxCalls
        /\ IF usage.allowed
           THEN /\ handlers' = [handlers EXCEPT ![h] = [pc |-> "commit", telegram_id |-> u,
                                                        usage |-> <<usage>>, at |-> now]]
                /\ day' = [day EXCEPT ![u].calls = @ + 1]
                /\ UNCHANGED last_check
           ELSE /\ last_check' = Returned(u, usage, now)
                /\ day' = [day EXCEPT ![u].calls = @ + 1]
                /\ UNCHANGED handlers
        /\ UNCHANGED <<catalogVars, scheduler_task, ledgerVars, now, users, storeVars, registryVars, sweepLocals, sweepHistory>>

\* ... and the commit and the return
CheckCommit(h) ==
    LET u == handlers[h].telegram_id
        usage == handlers[h].usage[1]
    IN  /\ handlers[h].pc = "commit"
        /\ users' = CommitUsage(users, u, usage)
        /\ last_check' = Returned(u, usage, handlers[h].at)
        /\ day' = Counted(day, u, TRUE, handlers[h].at)
        /\ handlers' = [handlers EXCEPT ![h] = IdleHandler]
        /\ UNCHANGED <<catalogVars, scheduler_task, ledgerVars, now, storeVars, registryVars, sweepLocals, sweepHistory>>

Next ==
    \/ \E u \in Users, p \in Products, target \in TargetPrices : add_monitor(u, p, target)
    \/ \E u \in Users, p \in Products : remove_monitor(u, p)
    \/ \E p \in Products, data \in FetchOutcomes : fetch_and_save_price(p, data)
    \/ SweepStart
    \/ SweepFetch
    \/ SweepNotify
    \/ SweepEnd

Spec == Init /\ [][Next]_vars

\* the quota guard and the tiers, one call at a time
TierNext ==
    \/ \E u \in Callers : check_and_increment_usage(u)
    \/ \E u \in Callers, plan \in Plans, days \in GrantDays : activate_plan(u, plan, days)
    \/ \E u \in Callers : add_monitor(u, 1, NoPrice)
    \/ Tick

TierSpec == QuotaInit /\ [][TierNext]_vars

\* the quota guard under concurrent handlers
QuotaNext ==
    \/ \E h \in Slots, u \in Callers : CheckRead(h, u)
    \/ \E h \in Slots : CheckCommit(h)
    \/ Tick

QuotaSpec == QuotaInit /\ [][QuotaNext]_vars

\* the monitor registry with tiers that run out or are taken back
RegistryNext ==
    \/ \E u \in Users, p \in Products, target \in TargetPrices : add_monitor(u, p, target)
    \/ \E u \in Users, p \in Products : remove_monitor(u, p)
    \/ \E u \in Callers, days \in GrantDays : activate_plan(u, "FREE", days)
    \/ Tick

RegistrySpec == Init /\ [][RegistryNext]_vars

\* the products of the registry under concurrent handlers: one more than PRO allows
Catalog == 1..(ProMonitorItems + 1)

\* the products the concurrent add and remove calls are about
Wanted == (ProMonitorItems - 1)..(ProMonitorItems + 1)

\* the caller holds PRO and monitors one product fewer than PRO allows
RaceInit ==
    /\ now = 0
    /\ users = [u \in Users |-> [NewUser(0) EXCEPT !.plan = "PRO", !.plan_expires_at = 2]]
    /\ products = [p \in Catalog |-> [current_price |-> MaxPrice]]
    /\ price_records = [p \in Catalog |-> <<PriceRecord(p, products[p].current_price, 0)>>]
    /\ monitored_products = [i \in 1..(ProMonitorItems - 1) |-> Monitor(1, i, NoPrice)]
    /\ sweep_pc = "idle"
    /\ monitors = <<>>
    /\ sweep_idx = 0
    /\ product_ids_checked = {}
    /\ product_new_prices = [p \in Catalog |-> NoPrice]
    /\ ops = 0
    /\ fetch_log = <<>>
    /\ sent = <<>>
    /\ evaluated = {}
    /\ handlers = [h \in Slots |-> IdleHandler]
    /\ last_check = <<>>
    /\ day = [u \in Users |-> FreshDay]
    /\ last_add = <<>>
    /\ adders = [h \in Slots |-> IdleAdder]
    /\ writers = [h \in Slots |-> IdleWriter]
    /\ report = <<>>
    /\ product_rows = [p \in DOMAIN products |-> ProductRow(p)]
    /\ creators = [h \in Slots |-> IdleCreator]
    /\ last_product = <<>>
    /\ scheduler_task = NewTask
    /\ prev_failed = {}
    /\ prev_prices = [p \in DOMAIN products |-> NoPrice]

\* the monitor registry under concurrent handlers
RaceNext ==
    \/ \E h \in Slots, u \in Callers, p \in Wanted, target \in TargetPrices :
          AddRead(h, u, p, target)
    \/ \E h \in Slots : AddCommit(h)
    \/ \E u \in Callers, p \in Wanted : remove_monitor(u, p)

RaceSpec == RaceInit /\ [][RaceNext]_vars

\* the same registry, one call at a time: the caller is one monitor short of the PRO
\* limit
LimitNext ==
    \/ \E u \in Callers, p \in Wanted, target \in TargetPrices : add_monitor(u, p, target)
    \/ \E u \in Callers, p \in Wanted : remove_monitor(u, p)

LimitSpec == RaceInit /\ [][LimitNext]_vars

\* the price a sweep has notified subscriber 1 of, for product 1
NotifiedPrice == MaxPrice - 1

\* subscriber 1 added product 1 to the monitoring, a sweep fetched NotifiedPrice and
\* notified the subscriber, and the subscriber removed the product
ReaddInit ==
    /\ now = 0
    /\ users = [u \in Users |-> [NewUser(0) EXCEPT !.plan = "PRO", !.plan_expires_at = 2]]
    /\ products = [p \in Products |->
                      [current_price |-> IF p = 1 THEN NotifiedPrice ELSE MaxPrice]]
    /\ price_records = [p \in Products |->
                           IF p = 1
                           THEN <<PriceRecord(p, MaxPrice, 0), PriceRecord(p, NotifiedPrice, 0)>>
                           ELSE <<PriceRecord(p, MaxPrice, 0)>>]
    /\ monitored_products =
           <<[Monitor(1, 1, NoPrice) EXCEPT !.last_notified_price = NotifiedPrice,
                                            !.is_active = FALSE]>>
    /\ sweep_pc = "idle"
    /\ monitors = <<>>
    /\ sweep_idx = 0
    /\ product_ids_checked = {}
    /\ product_new_prices = [p \in Products |-> NoPrice]
    /\ ops = 0
    /\ fetch_log = <<>>
    /\ sent = <<>>
    /\ evaluated = {}
    /\ handlers = [h \in Slots |-> IdleHandler]
    /\ last_check = <<>>
    /\ day = [u \in Users |-> FreshDay]
    /\ last_add = <<>>
    /\ adders = [h \in Slots |-> IdleAdder]
    /\ writers = [h \in Slots |-> IdleWriter]
    /\ report = <<>>
    /\ product_rows = [p \in DOMAIN products |-> ProductRow(p)]
    /\ creators = [h \in Slots |-> IdleCreator]
    /\ last_product = <<>>
    /\ scheduler_task = NewTask
    /\ prev_failed = {}
    /\ prev_prices = [p \in DOMAIN products |-> NoPrice]

\* the registry and the sweep, from a removed monitor that had been notified
ReaddNext ==
    \/ \E u \in Callers, p \in Products, target \in TargetPrices : add_monitor(u, p, target)
    \/ \E u \in Callers, p \in Products : remove_monitor(u, p)
    \/ \E p \in Products, data \in FetchOutcomes : fetch_and_save_price(p, data)
    \/ SweepStart
    \/ SweepFetch
    \/ SweepNotify
    \/ SweepEnd

ReaddSpec == ReaddInit /\ [][ReaddNext]_vars

\* ------------------------------------------------------------- ledger under concurrent writers
\* fetch_and_save_price for a priced product, up to the INSERT of its add_price_record:
\* the product row is updated, the record is built and stamped with utcnow ...
RecordStamp(h, p, data) ==
    /\ writers[h].pc = "idle"
    /\ Refreshed(data)
    /\ ops < MaxOps
    /\ ops' = ops + 1
    /\ products' = [products EXCEPT ![p].current_price = data.price]
    /\ writers' = [writers EXCEPT ![h] =
                      [pc |-> "insert", record |-> <<PriceRecord(p, data.price, now)>>]]
    /\ UNCHANGED <<catalogVars, scheduler_task, report, tierVars, quotaVars, price_records, monitored_products, last_add,
                   adders, prev_failed, prev_prices, sweepLocals, sweepHistory>>

\* ... and the database runs the INSERT
RecordInsert(h) ==
    /\ writers[h].pc = "insert"
    /\ price_records' = InsertRecord(price_records, writers[h].record[1])
    /\ writers' = [writers EXCEPT ![h] = IdleWriter]
    /\ UNCHANGED <<catalogVars, scheduler_task, report, tierVars, quotaVars, products, registryVars, sweepLocals,
                   sweepHistory>>

LedgerNext ==
    \/ \E h \in Slots, p \in Products, data \in FetchOutcomes : RecordStamp(h, p, data)
    \/ \E h \in Slots : RecordInsert(h)
    \/ Tick

LedgerSpec == Init /\ [][LedgerNext]_vars

\* ------------------------------------------------------------- statistics and detector calls
\* cb_price_history, handle_url: get_price_stats(product_id, days). The calls change nothing,
\* so a behaviour makes one: a second call would see what the first saw.
Stats(p, days) ==
    /\ report = <<>>
    /\ report' = <<[op |-> "stats", product_id |-> p, days |-> days, at |-> now,
                    result |-> get_price_stats(price_records, p, now, days)]>>
    /\ UNCHANGED <<catalogVars, scheduler_task, writers, tierVars, quotaVars, storeVars, registryVars, sweepLocals,
                   sweepHistory>>

\* cb_fake_discount: analyze_fake_discount(product_id, current_price, original_price)
Evaluate(p, current_price, original_price) ==
    /\ report = <<>>
    /\ report' = <<[op |-> "evaluate", product_id |-> p, current_price |-> current_price,
                    original_price |-> original_price, at |-> now,
                    result |-> analyze_fake_discount(price_records, p, now, current_price,
                                                     original_price)]>>
    /\ UNCHANGED <<catalogVars, scheduler_task, writers, tierVars, quotaVars, storeVars, registryVars, sweepLocals,
                   sweepHistory>>

\* the day of the calls, far enough from 0 for a ledger older than every window
Today == Days(400)

\* a ledger with the prices ps, in the order of their recording: the first k1 rows
\* were recorded ages[1] days before Today, the rows up to k2 ages[2] days before, the
\* rest ages[3] days before
History(p, ps, k1, k2, ages) ==
    [i \in DOMAIN ps |->
        PriceRecord(p, ps[i],
                    Today - Days(IF i <= k1 THEN ages[1]
                                 ELSE IF i <= k2 THEN ages[2] ELSE ages[3]))]

\* the state in which product 1 has the ledger history, at Today
InitHistory(history) ==
    /\ now = Today
    /\ users = [u \in Users |-> NewUser(Today)]
    /\ products = [p \in Products |-> [current_price |-> MaxPrice]]
    /\ price_records = [p \in Products |-> IF p = 1 THEN history ELSE <<>>]
    /\ monitored_products = <<>>
    /\ sweep_pc = "idle"
    /\ monitors = <<>>
    /\ sweep_idx = 0
    /\ product_ids_checked = {}
    /\ product_new_prices = [p \in Products |-> NoPrice]
    /\ ops = 0
    /\ fetch_log = <<>>
    /\ sent = <<>>
    /\ evaluated = {}
    /\ handlers = [h \in Slots |-> IdleHandler]
    /\ last_check = <<>>
    /\ day = [u \in Users |-> FreshDay]
    /\ last_add = <<>>
    /\ adders = [h \in Slots |-> IdleAdder]
    /\ writers = [h \in Slots |-> IdleWriter]
    /\ report = <<>>
    /\ product_rows = [p \in DOMAIN products |-> ProductRow(p)]
    /\ creators = [h \in Slots |-> IdleCreator]
    /\ last_product = <<>>
    /\ scheduler_task = NewTask
    /\ prev_failed = {}
    /\ prev_prices = [p \in DOMAIN products |-> NoPrice]

\* the windows get_price_stats is called with: history_days of the tiers
StatsDays == {30, 365}

\* product 1 has a ledger of at most MaxHistory rows, with prices from the set prices
HistoryInit(prices, ages) ==
    \E n \in 0..MaxHistory :
        \E ps \in [1..n -> prices], k1 \in 0..n, k2 \in 0..n :
            k1 <= k2 /\ InitHistory(History(1, ps, k1, k2, ages))

StatsInit == HistoryInit({96, 97, 100, 110}, <<400, 45, 10>>)

StatsNext == \E days \in StatsDays : Stats(1, days)

StatsSpec == StatsInit /\ [][StatsNext]_vars

DetectorInit == HistoryInit({100, 115, 150}, <<200, 100, 10>>)

DetectorNext ==
    \/ \E days \in StatsDays : Stats(1, days)
    \/ \E current_price \in {80, 100, 110, 140}, original_price \in {0, 130, 150} :
          Evaluate(1, current_price, original_price)

DetectorSpec == DetectorInit /\ [][DetectorNext]_vars

\* subscriber 1 monitors product 1
SchedulerInit ==
    /\ now = 0
    /\ users = [u \in Users |-> [NewUser(0) EXCEPT !.plan = "PRO", !.plan_expires_at = 2]]
    /\ products = [p \in Products |-> [current_price |-> MaxPrice]]
    /\ price_records = [p \in Products |-> <<PriceRecord(p, products[p].current_price, 0)>>]
    /\ monitored_products = <<Monitor(1, 1, NoPrice)>>
    /\ sweep_pc = "idle"
    /\ monitors = <<>>
    /\ sweep_idx = 0
    /\ product_ids_checked = {}
    /\ product_new_prices = [p \in Products |-> NoPrice]
    /\ ops = 0
    /\ fetch_log = <<>>
    /\ sent = <<>>
    /\ evaluated = {}
    /\ handlers = [h \in Slots |-> IdleHandler]
    /\ last_check = <<>>
    /\ day = [u \in Users |-> FreshDay]
    /\ last_add = <<>>
    /\ adders = [h \in Slots |-> IdleAdder]
    /\ writers = [h \in Slots |-> IdleWriter]
    /\ report = <<>>
    /\ product_rows = [p \in DOMAIN products |-> ProductRow(p)]
    /\ creators = [h \in Slots |-> IdleCreator]
    /\ last_product = <<>>
    /\ scheduler_task = NewTask
    /\ prev_failed = {}
    /\ prev_prices = [p \in DOMAIN products |-> NoPrice]

\* the target prices below every price but the lowest
LowTargets == {NoPrice, 1}

\* the registry and the sweep, with monitors whose target is low
TargetNext ==
    \/ \E u \in Callers, p \in Products, target \in LowTargets : add_monitor(u, p, target)
    \/ \E u \in Callers, p \in Products : remove_monitor(u, p)
    \/ \E p \in Products, data \in FetchOutcomes : fetch_and_save_price(p, data)
    \/ SweepStart
    \/ SweepFetch
    \/ SweepNotify
    \/ SweepEnd

TargetSpec == Init /\ [][TargetNext]_vars

\* subscriber 1, whose PRO tier runs out at time 2, monitors product 1: add calls on
\* that product, the change of a paid tier to the free one, and sweeps as time passes
ExpiryNext ==
    \/ \E u \in Callers : add_monitor(u, 1, NoPrice)
    \/ \E u \in Callers, days \in GrantDays :
          active_plan(users[u], now) # "FREE" /\ activate_plan(u, "FREE", days)
    \/ Tick
    \/ SweepStart
    \/ SweepFetch
    \/ SweepNotify
    \/ SweepEnd

ExpirySpec == SchedulerInit /\ [][ExpiryNext]_vars

\* subscriber 1 monitors product 1, and a sweep has fetched and recorded MaxPrice for it
DropInit ==
    /\ now = 0
    /\ users = [u \in Users |-> [NewUser(0) EXCEPT !.plan = "PRO", !.plan_expires_at = 2]]
    /\ products = [p \in Products |-> [current_price |-> MaxPrice]]
    /\ price_records = [p \in Products |->
                           IF p = 1
                           THEN <<PriceRecord(p, MaxPrice, 0), PriceRecord(p, MaxPrice, 0)>>
                           ELSE <<PriceRecord(p, MaxPrice, 0)>>]
    /\ monitored_products = <<Monitor(1, 1, NoPrice)>>
    /\ sweep_pc = "idle"
    /\ monitors = <<>>
    /\ sweep_idx = 0
    /\ product_ids_checked = {}
    /\ product_new_prices = [p \in Products |-> NoPrice]
    /\ ops = 0
    /\ fetch_log = <<>>
    /\ sent = <<>>
    /\ evaluated = {}
    /\ handlers = [h \in Slots |-> IdleHandler]
    /\ last_check = <<>>
    /\ day = [u \in Users |-> FreshDay]
    /\ last_add = <<>>
    /\ adders = [h \in Slots |-> IdleAdder]
    /\ writers = [h \in Slots |-> IdleWriter]
    /\ report = <<>>
    /\ product_rows = [p \in DOMAIN products |-> ProductRow(p)]
    /\ creators = [h \in Slots |-> IdleCreator]
    /\ last_product = <<>>
    /\ scheduler_task = NewTask
    /\ prev_failed = {}
    /\ prev_prices = [p \in Products |-> IF p = 1 THEN MaxPrice ELSE NoPrice]

\* sweeps and on-demand checks
DropNext ==
    \/ \E p \in Products, data \in FetchOutcomes : fetch_and_save_price(p, data)
    \/ SweepStart
    \/ SweepFetch
    \/ SweepNotify
    \/ SweepEnd

DropSpec == DropInit /\ [][DropNext]_vars

\* the steps of the run_scheduler task
SchedulerStep ==
    \/ SweepStart
    \/ SweepFetch
    \/ SweepNotify
    \/ SweepEnd
    \/ SweepRaise
    \/ SweepCaught

SchedulerNext ==
    \/ SchedulerStep
    \/ Cancel

\* the event loop resumes the task when what it awaits is done
SchedulerSpec == SchedulerInit /\ [][SchedulerNext]_vars /\ WF_vars(SchedulerStep)

\* ------------------------------------------------------------- product catalog under concurrent handlers
Marketplaces == {"wildberries", "ozon"}
ExternalIds == 1..3
Urls == 1..3

ByExternalId(table, marketplace, external_id) ==
    {i \in DOMAIN table :
        table[i].marketplace = marketplace /\ table[i].external_id = external_id}

ByUrl(table, url) == {i \in DOMAIN table : table[i].url = url}

\* what get_or_create_product is given, and what it returns: the id of a row, or the
\* error scalar_one_or_none raises when its SELECT finds several rows
ProductCall(url, marketplace, external_id, result) ==
    [url |-> url, marketplace |-> marketplace, external_id |-> external_id,
     result |-> result]

\* get_or_create_product up to its INSERT: the SELECT by marketplace and external id,
\* then the SELECT by url (a call that finds a row, or several, returns here) ...
ProductRead(h, url, marketplace, external_id) ==
    LET by_id == ByExternalId(product_rows, marketplace, external_id)
        by_url == ByUrl(product_rows, url)
        found == IF by_id # {} THEN by_id ELSE by_url
    IN  /\ creators[h].pc = "idle"
        /\ ops < MaxOps
        /\ ops' = ops + 1
        /\ IF found = {}
           THEN /\ creators' = [creators EXCEPT ![h] =
                                   [pc |-> "insert",
                                    call |-> <<ProductCall(url, marketplace, external_id, 0)>>]]
                /\ UNCHANGED last_product
           ELSE /\ last_product' =
                       <<ProductCall(url, marketplace, external_id,
                                     IF Cardinality(found) = 1
                                     THEN CHOOSE i \in found : TRUE
                                     ELSE "MultipleResultsFound")>>
                /\ UNCHANGED creators
        /\ UNCHANGED <<product_rows, scheduler_task, ledgerVars, tierVars, quotaVars, storeVars,
                       monitored_products, last_add, adders, prev_failed, prev_prices, sweepLocals,
                       sweepHistory>>

\* ... and session.add(product); session.commit(): the INSERT, which no constraint of
\* the table refuses
ProductInsert(h) ==
    LET call == creators[h].call[1]
    IN  /\ creators[h].pc = "insert"
        /\ product_rows' =
               Append(product_rows, [url |-> call.url, marketplace |-> call.marketplace,
                                     external_id |-> call.external_id])
        /\ last_product' = <<[call EXCEPT !.result = Len(product_rows) + 1]>>
        /\ creators' = [creators EXCEPT ![h] = IdleCreator]
        /\ UNCHANGED <<scheduler_task, ledgerVars, tierVars, quotaVars, storeVars,
                       registryVars, sweepLocals, sweepHistory>>

CatalogNext ==
    \/ \E h \in Slots, url \in Urls, marketplace \in Marketplaces,
          external_id \in ExternalIds :
          ProductRead(h, url, marketplace, external_id)
    \/ \E h \in Slots : ProductInsert(h)

CatalogSpec == Init /\ [][CatalogNext]_vars

\* ============================================================= claims
FetchCalls(p) == Cardinality({j \in DOMAIN fetch_log : fetch_log[j].product_id = p})
SentTo(i) == {j \in DOMAIN sent : sent[j].monitor_id = i}
Dispatched == Len(sent') = Len(sent) + 1
Last(seq) == seq[Len(seq)]
Min(a, b) == IF a <= b THEN a ELSE b

\* C1: no notification is dispatched to a monitor at a price greater than or equal to
\* the last_notified_price the monitor has at that moment, and last_notified_price
\* changes only to a strictly lower value (or from unset), and only in the step that
\* successfully dispatched a notification to that monitor at that price.
C1_Ratchet ==
    [][/\ Dispatched =>
            LET e == Last(sent')
                last == monitored_products[e.monitor_id].last_notified_price
            IN  last = NoPrice \/ e.price < last
       /\ \A i \in DOMAIN monitored_products :
            LET before == monitored_products[i].last_notified_price
                after == monitored_products'[i].last_notified_price
            IN  after # before =>
                    /\ before = NoPrice \/ after < before
                    /\ Dispatched
                    /\ Last(sent').monitor_id = i
                    /\ Last(sent').ok
                    /\ Last(sent').price = after]_vars

\* C1 witness: an any-drop notification went out to a monitor that had been notified
\* before, and lowered its last_notified_price.
C1_Witness ==
    \E j \in DOMAIN sent :
        /\ sent[j].ok
        /\ sent[j].kind = "drop"
        /\ sent[j].monitor.last_notified_price # NoPrice
        /\ monitored_products[sent[j].monitor_id].last_notified_price = sent[j].price
        /\ sent[j].price < sent[j].monitor.last_notified_price

\* C2: in one sweep scrape_product is called at most once per product; when the sweep
\* has run, it was called exactly once for every product of an active monitor and not
\* at all for any other product, and every monitor of a refreshed product has been
\* evaluated, also when several subscribers' monitors share the product.
C2_FetchOncePerProduct ==
    /\ \A p \in Products : FetchCalls(p) <= 1
    /\ sweep_pc = "done" =>
          /\ \A p \in Products :
                FetchCalls(p) = IF \E k \in DOMAIN monitors : monitors[k].product.id = p
                                THEN 1 ELSE 0
          /\ \A k \in DOMAIN monitors :
                product_new_prices[monitors[k].product.id] # NoPrice
                    => monitors[k].id \in evaluated

\* C2 witness: a finished sweep with two subscribers' monitors on one product, one
\* fetch, and the two monitors evaluated with different results.
C2_Witness ==
    /\ sweep_pc = "done"
    /\ \E k1, k2 \in DOMAIN monitors :
          /\ monitors[k1].user # monitors[k2].user
          /\ monitors[k1].product.id = monitors[k2].product.id
          /\ FetchCalls(monitors[k1].product.id) = 1
          /\ {monitors[k1].id, monitors[k2].id} \subseteq evaluated
          /\ \E j \in SentTo(monitors[k1].id) : sent[j].ok /\ sent[j].kind = "target"
          /\ \E j \in SentTo(monitors[k2].id) : ~sent[j].ok /\ sent[j].kind = "drop"

\* C3: a monitor whose dispatch failed in the previous sweep, and which has not been
\* changed since, is sent a notification by a sweep that fetches the same price for
\* its product.
C3_RetryAfterFailedDispatch ==
    sweep_pc = "done" =>
        \A f \in prev_failed :
            /\ \E k \in DOMAIN monitors : monitors[k].id = f[1]
            /\ product_new_prices[monitored_products[f[1]].product_id] = f[2]
            => SentTo(f[1]) # {}

\* C4: the step that dispatches a notification for a monitor sets that monitor's
\* last_notified_price to the price fetched for its product when the send succeeds and
\* leaves it unchanged when the send raises; no other monitor's last_notified_price
\* changes in that step.
C4_DispatchUpdatesOnlyOnSuccess ==
    [][Dispatched =>
          LET e == Last(sent')
              fetched == product_new_prices[monitored_products[e.monitor_id].product_id]
          IN  /\ DOMAIN monitored_products' = DOMAIN monitored_products
              /\ monitored_products'[e.monitor_id].last_notified_price =
                     IF e.ok THEN fetched
                     ELSE monitored_products[e.monitor_id].last_notified_price
              /\ \A i \in DOMAIN monitored_products \ {e.monitor_id} :
                     monitored_products'[i].last_notified_price =
                         monitored_products[i].last_notified_price]_vars

\* C4 witness: in one sweep a send succeeded for one monitor, which now holds the
\* fetched price, and a send raised for another, which still holds no price.
C4_Witness ==
    \E j1, j2 \in DOMAIN sent :
        /\ sent[j1].ok
        /\ ~sent[j2].ok
        /\ sent[j1].monitor_id # sent[j2].monitor_id
        /\ monitored_products[sent[j1].monitor_id].last_notified_price = sent[j1].price
        /\ monitored_products[sent[j2].monitor_id].last_notified_price = NoPrice

\* C9: a sweep sends at most one notification to a monitor, and when both the
\* any-drop condition and the target condition hold for it, the notification sent is
\* the target-reached one.
C9_OneNotificationTargetFirst ==
    /\ \A i \in DOMAIN monitored_products : Cardinality(SentTo(i)) <= 1
    /\ \A j \in DOMAIN sent :
          LET e == sent[j]
          IN  /\ e.monitor.notify_any_drop
              /\ e.price < e.old_price
              /\ e.monitor.target_price # NoPrice
              /\ e.price <= e.monitor.target_price
              => e.kind = "target"

\* C9 witness: a notification was sent for a monitor for which both conditions held.
C9_Witness ==
    \E j \in DOMAIN sent :
        /\ sent[j].monitor.notify_any_drop
        /\ sent[j].price < sent[j].old_price
        /\ sent[j].monitor.target_price # NoPrice
        /\ sent[j].price <= sent[j].monitor.target_price
        /\ sent[j].kind = "target"
        /\ Cardinality(SentTo(sent[j].monitor_id)) = 1

\* C10: a sweep in progress can always take its next step, and when it has run,
\* whatever fetches and sends failed, every product of its monitors has been fetched
\* and every monitor of a refreshed product has been evaluated.
C10_FailuresDoNotAbort ==
    /\ sweep_pc \in {"fetch", "notify"} => ENABLED (SweepFetch \/ SweepNotify)
    /\ sweep_pc = "done" =>
          \A k \in DOMAIN monitors :
              /\ \E j \in DOMAIN fetch_log : fetch_log[j].product_id = monitors[k].product.id
              /\ product_new_prices[monitors[k].product.id] # NoPrice
                    => monitors[k].id \in evaluated

\* C10 witness: a finished sweep in which the fetch of one product raised, a later
\* fetch of another product succeeded, and the send for that product's monitor raised.
C10_Witness ==
    /\ sweep_pc = "done"
    /\ \E j1, j2 \in DOMAIN fetch_log :
          /\ j1 < j2
          /\ fetch_log[j1].kind = "raise"
          /\ fetch_log[j2].kind = "data"
          /\ \E k \in DOMAIN monitors :
                /\ monitors[k].product.id = fetch_log[j2].product_id
                /\ monitors[k].id \in evaluated
                /\ \E j \in SentTo(monitors[k].id) : ~sent[j].ok

\* the limits of the effective tier, from the stored tier, its expiry and the time
TierLimits(plan, expires, t) ==
    IF expires # NoTime /\ expires > t
    THEN CASE plan = "PRO" -> <<ProChecksPerDay, ProMonitorItems>>
           [] plan = "PREMIUM" -> <<PremiumChecksPerDay, PremiumMonitorItems>>
           [] OTHER -> <<FreeChecksPerDay, FreeMonitorItems>>
    ELSE <<FreeChecksPerDay, FreeMonitorItems>>

\* the row the last call read was last reset on an earlier calendar day than the call
StaleRead(c) ==
    c.read.checks_reset_date = NoTime \/ Date(c.read.checks_reset_date) < Date(c.at)

DailyLimit(u) == PlanLimits(active_plan(users[u], now)).checks_per_day

\* C5: for a subscriber whose tier has not changed during the current calendar day,
\* the calls of that day that returned allowed=true are at most the daily limit, and
\* the stored counter, once reset for that day, equals their number.
C5_NoLostUpdate ==
    \A u \in Users :
        day[u].stable =>
            /\ day[u].allowed <= DailyLimit(u)
            /\ Date(users[u].checks_reset_date) = Date(now)
                  => users[u].checks_today = day[u].allowed

\* C6: a call that finds the stored reset date absent or on an earlier calendar day
\* counts from 0 and stamps the reset date with the time of the call, so it is allowed
\* and returns used = 1; a call that finds the reset date on the day of the call counts
\* from the stored counter and leaves the reset date as it is.
C6_ResetBeforeLimit ==
    Len(last_check) = 1 =>
        LET c == last_check[1]
            row == users[c.telegram_id]
        IN  IF StaleRead(c)
            THEN /\ c.allowed
                 /\ c.used = 1
                 /\ row.checks_today = 1
                 /\ row.checks_reset_date = c.at
            ELSE /\ c.used = c.read.checks_today + (IF c.allowed THEN 1 ELSE 0)
                 /\ row.checks_reset_date = c.read.checks_reset_date

\* C6 witness: a subscriber with checks_today = 3 and limit 3, last reset the day
\* before, called and got allowed = true, used = 1, limit = 3.
C6_Witness ==
    /\ Len(last_check) = 1
    /\ last_check[1].read.checks_today = 3
    /\ Date(last_check[1].read.checks_reset_date) + 1 = Date(last_check[1].at)
    /\ last_check[1].allowed
    /\ last_check[1].used = 1
    /\ last_check[1].limit = 3

\* C7: a call is rejected exactly when the counter it counts from is at or above the
\* limit, and then returns that counter and leaves the stored counter as it was;
\* otherwise it stores the counter plus one and returns it. So while the tier is
\* unchanged, the allowed calls of a calendar day are min(calls, limit).
C7_RejectAtLimit ==
    /\ Len(last_check) = 1 =>
          LET c == last_check[1]
              row == users[c.telegram_id]
              counter == IF StaleRead(c) THEN 0 ELSE c.read.checks_today
          IN  /\ ~c.allowed <=> counter >= c.limit
              /\ ~c.allowed => c.used = counter /\ row.checks_today = c.read.checks_today
              /\ c.allowed => c.used = counter + 1 /\ row.checks_today = counter + 1
    /\ \A u \in Users :
          day[u].stable => day[u].allowed = Min(day[u].calls, DailyLimit(u))

\* C7 witness: the fourth call of a day on the FREE tier was rejected with used = 3.
C7_Witness ==
    /\ Len(last_check) = 1
    /\ ~last_check[1].allowed
    /\ last_check[1].used = 3
    /\ day[last_check[1].telegram_id].stable
    /\ day[last_check[1].telegram_id].calls = 4
    /\ day[last_check[1].telegram_id].allowed = 3

\* C8: the daily limit a check_and_increment_usage call returns and the monitor limit
\* an add_monitor call uses are those of the stored tier if its expiry is set and later
\* than the time of the call, and those of FREE (3 checks, 0 monitors) otherwise.
C8_EffectiveTierLimits ==
    /\ Len(last_check) = 1 =>
          last_check[1].limit =
              TierLimits(last_check[1].read.plan, last_check[1].read.plan_expires_at,
                         last_check[1].at)[1]
    /\ Len(last_add) = 1 =>
          last_add[1].max_items =
              TierLimits(last_add[1].plan, last_add[1].plan_expires_at, last_add[1].at)[2]

\* C8 witness: with a paid tier stored and expired, a check got the limit 3 and an add
\* got the monitor limit 0.
C8_Witness ==
    /\ Len(last_check) = 1
    /\ last_check[1].read.plan = "PREMIUM"
    /\ last_check[1].read.plan_expires_at # NoTime
    /\ last_check[1].read.plan_expires_at <= last_check[1].at
    /\ last_check[1].limit = 3
    /\ Len(last_add) = 1
    /\ last_add[1].plan = "PREMIUM"
    /\ last_add[1].plan_expires_at # NoTime
    /\ last_add[1].plan_expires_at <= last_add[1].at
    /\ last_add[1].max_items = 0

\* the rows of the monitors table for a (subscriber, product) pair
RowsOf(table, u, p) ==
    {i \in DOMAIN table : table[i].user_id = u /\ table[i].product_id = p}

\* an add call on a pair that has a row keeps the number of rows, leaves the pair's row
\* active with the target price of the call, and returns the update result
UpdatesInPlace(u, p, target) ==
    /\ Len(monitored_products') = Len(monitored_products)
    /\ \A i \in RowsOf(monitored_products, u, p) :
          /\ monitored_products'[i].is_active
          /\ monitored_products'[i].target_price = target
    /\ last_add'[1].result = "updated"

\* the monitor limit of the subscriber's effective tier
MonitorLimit(u) == TierLimits(users[u].plan, users[u].plan_expires_at, now)[2]

\* C11 as stated: at most one row exists for each (subscriber, product) pair, and every
\* add call on a pair that already has a row, active or inactive, sets that row active
\* with the new target price and reports an update, adding no row.
C11_ReaddAlwaysUpdates ==
    [][/\ \A u \in Users, p \in Products :
             Cardinality(RowsOf(monitored_products', u, p)) <= 1
       /\ \A u \in Users, p \in Products, target \in TargetPrices :
             add_monitor(u, p, target) /\ RowsOf(monitored_products, u, p) # {}
                 => UpdatesInPlace(u, p, target)]_vars

\* C11 amended: at most one row exists for each (subscriber, product) pair, and an add
\* call on a pair that already has a row, active or inactive, made while the
\* subscriber's effective tier allows monitors and the subscriber's active monitors
\* are fewer than its limit, sets that row active with the new target price and
\* reports an update, adding no row; an add call that is rejected changes nothing.
C11_OneRowPerPair ==
    [][/\ \A u \in Users, p \in Products :
             Cardinality(RowsOf(monitored_products', u, p)) <= 1
       /\ \A u \in Users, p \in Products, target \in TargetPrices :
             add_monitor(u, p, target) /\ RowsOf(monitored_products, u, p) # {}
                 => IF /\ MonitorLimit(u) > 0
                       /\ Cardinality({i \in DOMAIN monitored_products :
                               /\ monitored_products[i].user_id = u
                               /\ monitored_products[i].is_active}) < MonitorLimit(u)
                    THEN UpdatesInPlace(u, p, target)
                    ELSE monitored_products' = monitored_products]_vars

\* C11 witness: the third call was an add on the pair of the table's one row; it
\* reported an update, and the row is active with the call's target price.
C11_Witness ==
    /\ Len(last_add) = 1
    /\ last_add[1].result = "updated"
    /\ last_add[1].target_price # NoPrice
    /\ ops = 3
    /\ Len(monitored_products) = 1
    /\ \E i \in RowsOf(monitored_products, last_add[1].user_id, last_add[1].product_id) :
          /\ monitored_products[i].is_active
          /\ monitored_products[i].target_price = last_add[1].target_price

\* C13: an add call for a subscriber whose effective tier has a monitor limit of 0
\* returns the tier-ineligible result, not the limit-exceeded one, whatever the
\* subscriber's active monitors and whether or not the pair has a row, and leaves the
\* monitors table as it was.
C13_TierIneligibleFirst ==
    [][\A u \in Users, p \in Products, target \in TargetPrices :
          add_monitor(u, p, target) /\ MonitorLimit(u) = 0
              => /\ last_add'[1].result = "unavailable"
                 /\ monitored_products' = monitored_products]_vars

\* C13 witness: an add call on a pair with an active row, for a subscriber whose paid
\* tier had run out, returned the tier-ineligible result; the row still has no target.
C13_Witness ==
    /\ Len(last_add) = 1
    /\ last_add[1].result = "unavailable"
    /\ last_add[1].plan = "PRO"
    /\ last_add[1].max_items = 0
    /\ last_add[1].target_price # NoPrice
    /\ \E i \in RowsOf(monitored_products, last_add[1].user_id, last_add[1].product_id) :
          /\ monitored_products[i].is_active
          /\ monitored_products[i].target_price = NoPrice

\* C12: the active monitors of a subscriber whose tier has not changed are at most the
\* monitor limit of the tier, also when add calls for different products interleave,
\* and an add call that read an active count at or above the limit returned the
\* limit-exceeded result.
C12_ActiveWithinLimit ==
    /\ \A u \in Users :
          Cardinality({i \in DOMAIN monitored_products :
                          /\ monitored_products[i].user_id = u
                          /\ monitored_products[i].is_active}) <= MonitorLimit(u)
    /\ Len(last_add) = 1 /\ last_add[1].max_items > 0
           /\ last_add[1].current_count >= last_add[1].max_items
          => last_add[1].result = "limit"

\* the fields of row i other than is_active and target_price are as they were
KeepsHistory(i) ==
    /\ monitored_products'[i].user_id = monitored_products[i].user_id
    /\ monitored_products'[i].product_id = monitored_products[i].product_id
    /\ monitored_products'[i].notify_any_drop = monitored_products[i].notify_any_drop
    /\ monitored_products'[i].last_notified_price = monitored_products[i].last_notified_price

Chronological(rows) ==
    \A i, j \in DOMAIN rows : i < j => rows[i].recorded_at <= rows[j].recorded_at

\* the longest window the statistics are asked for, in days
LongestWindow == 365

\* C16: for every product the rows of the ledger are, in insertion order, in
\* non-decreasing recorded-at order, also when two writers for the product run
\* concurrently, and the rows returned for statistics are in non-decreasing
\* recorded-at order.
C16_InsertionOrderChronological ==
    \A p \in Products :
        /\ Chronological(price_records[p])
        /\ Chronological(get_price_history(price_records, p, now, LongestWindow))

\* the priced rows of the product's ledger recorded in the days days before t, in
\* insertion order
PricedSince(p, t, days) ==
    LET Counts(r) == r.price > 0 /\ r.recorded_at >= t - Days(days)
    IN  SelectSeq(price_records[p], Counts)

\* the priced rows of the product's ledger, in insertion order
Priced(p) ==
    LET Counts(r) == r.price > 0
    IN  SelectSeq(price_records[p], Counts)

\* C15: every row of the ledger has price > 0, whatever the on-demand checks and the
\* sweeps fetched, and the statistics of a product count exactly its rows, all of
\* them with price > 0.
C15_OnlyPositivePrices ==
    \A p \in Products :
        /\ \A i \in DOMAIN price_records[p] : price_records[p][i].price > 0
        /\ LET stats == get_price_stats(price_records, p, now, LongestWindow)
           IN  stats.has_data =>
                   /\ Len(stats.prices) = Len(price_records[p])
                   /\ stats.records_count = Len(stats.prices)
                   /\ \A k \in DOMAIN stats.prices : stats.prices[k] > 0

\* C15 witness: an on-demand check of product 2 got no price and a sweep fetched no
\* price for product 1; both products still have their one row.
C15_Witness ==
    /\ products[2].current_price = NoPrice
    /\ sweep_pc = "done"
    /\ \E j \in DOMAIN fetch_log :
          fetch_log[j].product_id = 1 /\ fetch_log[j].kind = "data"
    /\ product_new_prices[1] = NoPrice
    /\ \A p \in Products : Len(price_records[p]) = 1

\* C17: get_price_stats returns has_data = false exactly when the ledger has no row
\* with price > 0 in the window of the call, and analyze_fake_discount returns
\* is_fake = false, confidence 0 and the insufficient-data verdict when the ledger has
\* fewer than 2 rows with price > 0.
C17_InsufficientHistoryIsAResult ==
    Len(report) = 1 =>
        LET c == report[1]
        IN  /\ c.op = "stats" =>
                  (c.result.has_data <=> PricedSince(c.product_id, c.at, c.days) # <<>>)
            /\ c.op = "evaluate" /\ Len(Priced(c.product_id)) < 2 =>
                  /\ ~c.result.is_fake
                  /\ c.result.confidence = 0
                  /\ c.result.verdict = "insufficient"

\* C17 witness: the ledger has rows, none of them in the 30 days of the call, and the
\* statistics returned has_data = false.
C17_Witness ==
    /\ Len(report) = 1
    /\ report[1].op = "stats"
    /\ report[1].days = 30
    /\ ~report[1].result.has_data
    /\ Len(price_records[1]) >= 2

\* the trend of the prices first then last, and its percentage in tenths
IsTrend(first, last, trend, tenths) ==
    /\ trend = "up" <=> (last - first) * 100 > 3 * first
    /\ trend = "down" <=> (last - first) * 100 < (-3) * first
    /\ trend \in {"up", "down", "stable"}
    /\ 2 * ((last - first) * 1000 - tenths * first) <= first
    /\ 2 * (tenths * first - (last - first) * 1000) <= first

\* C18: the trend of the statistics is that of the first and the last row with
\* price > 0 recorded in the 30 days before the call: stable with 0 percent when
\* there are fewer than 2 such rows, else up when (last - first) / first * 100 > 3,
\* down when it is < -3, stable otherwise, with that percentage rounded to a tenth.
\* 100 then 110 gives up with 10.0, 100 then 97 stable, 100 then 96 down.
C18_TrendOfLastThirtyDays ==
    Len(report) = 1 /\ report[1].op = "stats" /\ report[1].result.has_data =>
        LET c == report[1]
            recent == PricedSince(c.product_id, c.at, 30)
        IN  /\ IF Len(recent) < 2
               THEN c.result.trend = "stable" /\ c.result.trend_percent = 0
               ELSE IsTrend(recent[1].price, recent[Len(recent)].price,
                            c.result.trend, c.result.trend_percent)
            /\ Len(recent) = 2 /\ recent[1].price = 100 =>
                  /\ recent[2].price = 110 =>
                        c.result.trend = "up" /\ c.result.trend_percent = 100
                  /\ recent[2].price = 97 => c.result.trend = "stable"
                  /\ recent[2].price = 96 => c.result.trend = "down"

\* C18 witness: a row at 96 recorded 45 days before, then 100 and 110 in the last 30
\* days; the statistics of the last 365 days count 3 rows and give up with 10.0.
C18_Witness ==
    /\ Len(report) = 1
    /\ report[1].op = "stats"
    /\ report[1].days = LongestWindow
    /\ report[1].result.has_data
    /\ report[1].result.records_count = 3
    /\ report[1].result.prices = <<96, 100, 110>>
    /\ Len(PricedSince(1, now, 30)) = 2
    /\ report[1].result.trend = "up"
    /\ report[1].result.trend_percent = 100

\* C19: for a call with a claimed original price greater than the current price and
\* at least 2 priced rows in the 180 days of history the detector reads, with avg and
\* min over those rows: current >= 0.95 * avg gives is_fake with confidence 85 or 95;
\* else current <= 1.05 * min gives not fake with confidence 80; else not fake with
\* confidence 60. A flat history with current equal to it gives fake. History
\* 100, 100, 100, 100 with current 80 and claimed 130 gives genuine, confidence 80.
C19_OrderedDecisionRule ==
    Len(report) = 1 /\ report[1].op = "evaluate" =>
        LET c == report[1]
            history == PricedSince(c.product_id, c.at, 180)
            prices == [i \in DOMAIN history |-> history[i].price]
            flat == \A i \in DOMAIN prices : prices[i] = c.current_price
        IN  Len(history) >= 2 /\ c.original_price > c.current_price =>
                /\ IF c.current_price * 100 * Len(prices) >= 95 * Sum(prices)
                   THEN c.result.is_fake /\ c.result.confidence \in {85, 95}
                   ELSE IF c.current_price * 100 <= 105 * MinOf(prices)
                   THEN ~c.result.is_fake /\ c.result.confidence = 80
                   ELSE ~c.result.is_fake /\ c.result.confidence = 60
                /\ flat => c.result.is_fake
                /\ prices = <<100, 100, 100, 100>> /\ c.current_price = 80
                       /\ c.original_price = 130
                      => /\ ~c.result.is_fake
                         /\ c.result.confidence = 80
                         /\ c.result.verdict = "genuine"

\* C19 witness: history 100, 100, 100, 100, current 80, claimed 130: genuine, 80.
C19_Witness ==
    /\ Len(report) = 1
    /\ report[1].op = "evaluate"
    /\ Len(PricedSince(1, now, 180)) = 4
    /\ \A i \in DOMAIN price_records[1] : price_records[1][i].price = 100
    /\ report[1].current_price = 80
    /\ report[1].original_price = 130
    /\ ~report[1].result.is_fake
    /\ report[1].result.confidence = 80

\* C20: when the verdict is fake and the priced rows of the last 60 days have at least
\* one consecutive pair, confidence is 95 if some pair rises by more than 15 percent
\* and 85 if none does; a verdict that is not fake has confidence 0, 60 or 80. History
\* 100, 100, 100, 100, 150 with current 140 and claimed 150 gives fake, confidence 95.
C20_MarkupRaisesConfidence ==
    Len(report) = 1 /\ report[1].op = "evaluate" =>
        LET c == report[1]
            recent == PricedSince(c.product_id, c.at, 60)
            jump == \E i \in 2..Len(recent) :
                        (recent[i].price - recent[i - 1].price) * 100
                            > 15 * recent[i - 1].price
        IN  /\ c.result.is_fake /\ Len(recent) >= 2 =>
                  c.result.confidence = IF jump THEN 95 ELSE 85
            /\ ~c.result.is_fake => c.result.confidence \in {0, 60, 80}

\* C21: a call whose claimed original price is 0 or does not exceed the current price,
\* on a history of at least 2 priced rows, returns is_fake = false with confidence 0
\* and a verdict that depends on the current price and the history only: near the
\* floor when current <= 1.05 * min, checked first, else near the ceiling when
\* current >= 0.95 * max, else normal.
C21_NoClaimClassifiesByProximity ==
    Len(report) = 1 /\ report[1].op = "evaluate" =>
        LET c == report[1]
            history == PricedSince(c.product_id, c.at, 180)
            prices == [i \in DOMAIN history |-> history[i].price]
        IN  Len(history) >= 2
                /\ (c.original_price = 0 \/ c.original_price <= c.current_price)
            => /\ ~c.result.is_fake
               /\ c.result.confidence = 0
               /\ ~c.result.markup
               /\ c.result.verdict =
                      IF c.current_price * 100 <= 105 * MinOf(prices) THEN "near_min"
                      ELSE IF c.current_price * 100 >= 95 * MaxOf(prices) THEN "near_max"
                      ELSE "normal"

\* C21 witness: a flat history at 100 and a call with current 100 and claimed 0: the
\* price is near the floor and near the ceiling, and the verdict is the floor's.
C21_Witness ==
    /\ Len(report) = 1
    /\ report[1].op = "evaluate"
    /\ report[1].original_price = 0
    /\ report[1].current_price = 100
    /\ Len(price_records[1]) >= 2
    /\ \A i \in DOMAIN price_records[1] : price_records[1][i].price = 100
    /\ Len(PricedSince(1, now, 180)) >= 2
    /\ report[1].result.verdict = "near_min"
    /\ report[1].result.confidence = 0

\* whether a notification is due for an item of the sweep's list at the fetched price,
\* from the columns the sweep loaded
Due(item, new_price) ==
    LET last == item.monitor.last_notified_price
        old_price == item.product.current_price
        target == item.monitor.target_price
    IN  /\ last = NoPrice \/ new_price < last
        /\ \/ item.monitor.notify_any_drop /\ old_price # NoPrice /\ new_price < old_price
           \/ target # NoPrice /\ new_price <= target

\* C22: a sweep dispatches a notification for a monitor of a refreshed product exactly
\* when (last_notified_price is unset or new_price < last_notified_price) and
\* (notify_any_drop and new_price < old_price, the cached price the sweep loaded, or
\* target_price is set and new_price <= target_price); it dispatches none for a monitor
\* it has not evaluated.
C22_DispatchIffTriggered ==
    /\ \A k \in DOMAIN monitors :
          monitors[k].id \in evaluated =>
              (SentTo(monitors[k].id) # {}
                  <=> Due(monitors[k], product_new_prices[monitors[k].product.id]))
    /\ \A j \in DOMAIN sent : sent[j].monitor_id \in evaluated

\* C22 witness: a target notification went out at a price not below the cached one.
C22_Witness ==
    \E j \in DOMAIN sent :
        /\ sent[j].monitor_id \in evaluated
        /\ sent[j].kind = "target"
        /\ sent[j].monitor.last_notified_price = NoPrice
        /\ sent[j].price >= sent[j].old_price

Fetched == Len(fetch_log') = Len(fetch_log) + 1

\* the running sweep fetched a price for product p
FetchSucceeded(p) ==
    \E j \in DOMAIN fetch_log :
        /\ fetch_log[j].product_id = p
        /\ fetch_log[j].kind = "data"
        /\ fetch_log[j].price > 0

\* C23: the step of a sweep that calls the fetcher for a product is the sweep's only
\* call for it; when the call returns nothing, returns a price <= 0 or raises, the step
\* appends no row to the ledger and leaves the products table as it was; when it
\* returns a price > 0, the step appends one row with that price to the product's
\* ledger and sets the product's cached price to it, leaving the other products
\* alone. A sweep sends a notification and changes last_notified_price only for
\* monitors of products whose fetch succeeded.
C23_FailedFetchChangesNothing ==
    [][/\ Fetched =>
            LET e == Last(fetch_log')
                p == e.product_id
            IN  /\ \A j \in DOMAIN fetch_log : fetch_log[j].product_id # p
                /\ IF e.kind = "data" /\ e.price > 0
                   THEN /\ Len(price_records'[p]) = Len(price_records[p]) + 1
                        /\ SubSeq(price_records'[p], 1, Len(price_records[p]))
                               = price_records[p]
                        /\ Last(price_records'[p]).price = e.price
                        /\ products'[p].current_price = e.price
                        /\ \A q \in Products \ {p} :
                               /\ price_records'[q] = price_records[q]
                               /\ products'[q] = products[q]
                   ELSE /\ price_records' = price_records
                        /\ products' = products
       /\ Dispatched =>
            FetchSucceeded(monitored_products[Last(sent').monitor_id].product_id)
       /\ \A i \in DOMAIN monitored_products :
            monitored_products'[i].last_notified_price
                    # monitored_products[i].last_notified_price
                => FetchSucceeded(monitored_products[i].product_id)]_vars

\* C23 witness: a finished sweep whose fetch failed for one product and succeeded for
\* another: the first has its one row and its cached price, and its monitor was sent
\* nothing; the second has a second row and the fetched price, and its monitor was
\* notified.
C23_Witness ==
    /\ sweep_pc = "done"
    /\ \E j1, j2 \in DOMAIN fetch_log :
          LET p1 == fetch_log[j1].product_id
              p2 == fetch_log[j2].product_id
          IN  /\ ~FetchSucceeded(p1)
              /\ FetchSucceeded(p2)
              /\ Len(price_records[p1]) = 1
              /\ products[p1].current_price = MaxPrice
              /\ Len(price_records[p2]) = 2
              /\ products[p2].current_price = fetch_log[j2].price
              /\ Last(price_records[p2]).price = fetch_log[j2].price
              /\ \A j \in DOMAIN sent :
                    monitored_products[sent[j].monitor_id].product_id = p2
              /\ \E j \in DOMAIN sent :
                    /\ sent[j].ok
                    /\ monitored_products[sent[j].monitor_id].last_notified_price
                           = fetch_log[j2].price
              /\ \E i \in DOMAIN monitored_products :
                    /\ monitored_products[i].product_id = p1
                    /\ monitored_products[i].is_active
                    /\ monitored_products[i].last_notified_price = NoPrice

\* C24: the products table has at most one row for each marketplace and external id.
C24_OneProductPerExternalId ==
    \A i, j \in DOMAIN product_rows :
        /\ product_rows[i].marketplace = product_rows[j].marketplace
        /\ product_rows[i].external_id = product_rows[j].external_id
        => i = j

\* C25: the run_scheduler task leaves the running state only by cancellation; from
\* the moment cancel() is called the task is cancelled, wherever it was, in a sweep or
\* in its sleep, and no step of a sweep is taken afterwards; and after a sweep from
\* which an exception escaped, the loop starts the next sweep unless it is cancelled
\* first.
C25_LoopEndsOnlyOnCancel ==
    /\ [](scheduler_task.state # "running" =>
             scheduler_task.state = "cancelled" /\ scheduler_task.cancel_requested)
    /\ [](scheduler_task.cancel_requested => scheduler_task.state = "cancelled")
    /\ [][~scheduler_task.cancel_requested]_vars
    /\ \A n \in 1..(MaxOps - 1) :
          (sweep_pc = "raised" /\ ops = n)
              ~> (ops = n + 1 \/ scheduler_task.state = "cancelled")

\* C25 witness: the first sweep raised, the loop caught it and started the second
\* sweep, and the task was cancelled in the middle of that sweep.
C25_Witness ==
    /\ scheduler_task.state = "cancelled"
    /\ scheduler_task.errors = 1
    /\ ops = 2
    /\ sweep_pc \in {"fetch", "notify"}
    /\ monitors # <<>>

\* C26: when a sweep has run, every monitor of its list that is active, has
\* notify_any_drop set, and has last_notified_price unset or above the fetched price
\* was sent a notification, if the previous sweep recorded a price for its product
\* and this sweep fetched a lower one.
C26_DropNotLost ==
    sweep_pc = "done" =>
        \A k \in DOMAIN monitors :
            LET item == monitors[k]
                P1 == prev_prices[item.product.id]
                P2 == product_new_prices[item.product.id]
                last == item.monitor.last_notified_price
            IN  /\ P1 # NoPrice
                /\ P2 # NoPrice
                /\ P2 < P1
                /\ monitored_products[item.id].is_active
                /\ item.monitor.notify_any_drop
                /\ last = NoPrice \/ last > P2
                => SentTo(item.id) # {}

\* C27: a sweep sends a notification only for a monitor that is active at that moment,
\* and changes last_notified_price only of such a monitor: a monitor removed after the
\* sweep loaded its list gets neither.
C27_RemovedDuringSweepNotNotified ==
    [][/\ Dispatched => monitored_products[Last(sent').monitor_id].is_active
       /\ \A i \in DOMAIN monitored_products :
            monitored_products'[i].last_notified_price
                    # monitored_products[i].last_notified_price
                => monitored_products[i].is_active]_vars

\* C28: every row of the monitors table has notify_any_drop set, whatever add, re-add
\* and remove calls and sweeps have run; so a sweep that fetches, for a monitor with a
\* target price, a price below the cached one and above the target, with
\* last_notified_price unset or above it, sends the monitor the any-drop notification.
C28_AnyDropAlwaysSet ==
    /\ \A i \in DOMAIN monitored_products : monitored_products[i].notify_any_drop
    /\ \A k \in DOMAIN monitors :
          LET item == monitors[k]
              new_price == product_new_prices[item.product.id]
              last == item.monitor.last_notified_price
          IN  /\ item.id \in evaluated
              /\ item.monitor.target_price # NoPrice
              /\ new_price > item.monitor.target_price
              /\ new_price < item.product.current_price
              /\ last = NoPrice \/ new_price < last
              => \E j \in SentTo(item.id) : sent[j].kind = "drop"

\* C28 witness: a monitor added with target 1 was sent the any-drop notification at a
\* price above its target.
C28_Witness ==
    \E j \in DOMAIN sent :
        /\ sent[j].kind = "drop"
        /\ sent[j].monitor.target_price # NoPrice
        /\ sent[j].price > sent[j].monitor.target_price
        /\ sent[j].price < sent[j].old_price
        /\ monitored_products[sent[j].monitor_id].notify_any_drop


\* C29: an add call on a (subscriber, product) pair whose row is active, made while the
\* subscriber's active monitors equal the limit of its tier, returns the limit-exceeded
\* result and leaves the monitors table, the row's target price included, as it was;
\* made while the active monitors are fewer than the limit, it sets the row's target
\* price in place and reports an update.
C29_ActivePairRejectedAtLimit ==
    [][\A u \in Callers, p \in Wanted, target \in TargetPrices :
          /\ add_monitor(u, p, target)
          /\ MonitorLimit(u) > 0
          /\ \E i \in RowsOf(monitored_products, u, p) : monitored_products[i].is_active
          => /\ ActiveCount(monitored_products, u) = MonitorLimit(u)
                  => /\ last_add'[1].result = "limit"
                     /\ monitored_products' = monitored_products
             /\ ActiveCount(monitored_products, u) < MonitorLimit(u)
                  => UpdatesInPlace(u, p, target)]_vars

\* C29 witness: with as many active monitors as PRO allows, an add call with a target
\* price on a pair whose row is active returned the limit-exceeded result, and the row
\* still has no target price.
C29_Witness ==
    /\ Len(last_add) = 1
    /\ last_add[1].result = "limit"
    /\ last_add[1].max_items = ProMonitorItems
    /\ last_add[1].current_count = ProMonitorItems
    /\ last_add[1].target_price # NoPrice
    /\ ActiveCount(monitored_products, last_add[1].user_id) = ProMonitorItems
    /\ \E i \in RowsOf(monitored_products, last_add[1].user_id, last_add[1].product_id) :
          /\ monitored_products[i].is_active
          /\ monitored_products[i].target_price = NoPrice


\* C30: no step of time and no tier grant deactivates a monitor; a sweep loads every
\* active monitor, whatever its subscriber's effective tier, fetches the price of each
\* one's product, and sends a notification to every one it evaluates with a trigger
\* and the ratchet passed; an add call for a subscriber whose effective tier has a
\* monitor limit of 0 is rejected and writes nothing.
C30_SweepIgnoresTier ==
    /\ [][/\ \A i \in DOMAIN monitored_products :
                monitored_products[i].is_active => monitored_products'[i].is_active
          /\ SweepStart
                => {monitors'[k].id : k \in DOMAIN monitors'} =
                      {i \in DOMAIN monitored_products : monitored_products[i].is_active}
          /\ \A u \in Callers :
                add_monitor(u, 1, NoPrice) /\ MonitorLimit(u) = 0
                    => /\ last_add'[1].result = "unavailable"
                       /\ monitored_products' = monitored_products]_vars
    /\ [](sweep_pc \in {"notify", "done"}
             => \A k \in DOMAIN monitors : monitors[k].product.id \in product_ids_checked)
    /\ [](\A k \in DOMAIN monitors :
             monitors[k].id \in evaluated
                 /\ Due(monitors[k], product_new_prices[monitors[k].product.id])
                 => SentTo(monitors[k].id) # {})

\* C30 witness: subscriber 1's PRO tier ran out at time 2 and was not renewed; a sweep
\* that fetched product 1's price after that sent the subscriber's monitor a
\* notification, the monitor is still active, and the subscriber's add call was
\* rejected as tier-ineligible.
C30_Witness ==
    /\ users[1].plan = "PRO"
    /\ users[1].plan_expires_at = 2
    /\ active_plan(users[1], now) = "FREE"
    /\ \E j \in DOMAIN sent :
          /\ sent[j].monitor.user_id = 1
          /\ monitored_products[sent[j].monitor_id].is_active
          /\ LET rows == price_records[sent[j].monitor.product_id]
             IN  /\ Last(rows).recorded_at >= users[1].plan_expires_at
                 /\ Last(rows).price = sent[j].price
    /\ Len(last_add) = 1
    /\ last_add[1].user_id = 1
    /\ last_add[1].result = "unavailable"
    /\ last_add[1].at >= users[1].plan_expires_at

====
